---- MODULE Spec2Model ----
(***************************************************************************)
(* Model of the photo standardisation pipeline of ImageProcessor:          *)
(*   - extractEmployeeId / isValidEmployeeId (filename heuristics),        *)
(*   - the crop geometry computed inside processImage,                     *)
(*   - processImages: the promise fan-out over the input files, the zip    *)
(*     staging and the finalisation of the archive.                        *)
(* Strings are sequences of one-character strings.  Pixel quantities of    *)
(* the crop are kept in units of 1/Scale pixel so that the products with   *)
(* radiusPercent/100, 1.5 and 0.5 are exact.                               *)
(***************************************************************************)
EXTENDS Integers, Sequences, FiniteSets, TLC

VARIABLES
  pc,        \* position of processImages: "idle","running","finalizing","done","rejected","extract","extracted","crop","cropped"
  files,     \* imageFiles: sequence of file names
  task,      \* per file: progress of processImage (st, loaded: outcome of the image load,
             \* faces: whether detections is empty, blob, error) and the value of its task promise
  zipOk,     \* processedFolder is non-null
  zip,       \* entries staged in the JSZip instance: set of [path, data]
  saved,     \* what saveAs was called with ("none" when it was not called)
  thrown,    \* error propagated by processImages ("none" when none)
  results,   \* value of `results` after Promise.all ("none" before)
  fname,     \* argument of extractEmployeeId (extractor specification)
  ident,     \* its return value
  geo,       \* inputs of the crop computation
  crop,      \* the crop rectangle
  detections,   \* result of faceapi.detectAllFaces: sequence of boxes (face selection)
  largestFace,  \* the box chosen by the reduce in processImage
  answers,      \* per file: what the image load, the detector and the canvas answer
                \* (specification with a fixed environment; <<>> otherwise)
  page,         \* state of the Index page
  valid,        \* return value of isValidEmployeeId (validation specification)
  vault         \* the VaultConfigurations table and the requests in progress

vars == <<pc, files, task, zipOk, zip, saved, thrown, results, fname, ident, geo, crop,
          detections, largestFace, answers, page, valid, vault>>

None == "none"
\* a failed String.prototype.match (null); no string equals it
NoMatch == <<"null">>

----------------------------------------------------------------------------
(* Bounds *)
MaxLen == 5          \* longest arbitrary string given to extractEmployeeId
MaxTail == 3         \* longest trailing text after "MTI<digits><separator>"
MaxFiles == 3        \* largest batch
MaxDim == 3          \* largest image / face box coordinate, in pixels
MaxBoxes == 3        \* most boxes the detector returns for one image
MaxSide == 2         \* largest side of a detected box in the face selection
MaxEnvFiles == 2     \* most files of a batch whose environment is fixed beforehand
MaxSelected == 2     \* most files selected on the Index page
MaxCalls == 2        \* most processImages calls of the Index page in progress at once
MaxConfigs == 2      \* most rows of VaultConfigurations
MaxRequests == 2     \* most vault requests in progress at once

----------------------------------------------------------------------------
(* Characters and strings *)
Digit == {"0", "1", "2", "3", "4", "5", "6", "7", "8", "9"}
Letter ==
  {"A", "B", "C", "D", "E", "F", "G", "H", "I", "J", "K", "L", "M", "N", "O", "P", "Q", "R", "S", "T", "U", "V", "W", "X", "Y", "Z",
   "a", "b", "c", "d", "e", "f", "g", "h", "i", "j", "k", "l", "m", "n", "o", "p", "q", "r", "s", "t", "u", "v", "w", "x", "y", "z"}

IsSpace(c) == c = " "
IsDigit(c) == c \in Digit
IsAlnum(c) == c \in Digit \cup Letter

\* equality of characters under the regex flag i
EqIgnoreCase(c, u) ==
  \/ c = u
  \/ u = "M" /\ c = "m"
  \/ u = "T" /\ c = "t"
  \/ u = "I" /\ c = "i"

\* String.prototype.indexOf, 0-based, -1 when absent
IndexOf(s, sep) ==
  LET hits == {i \in 1..(Len(s) - Len(sep) + 1) : SubSeq(s, i, i + Len(sep) - 1) = sep}
  IN  IF hits = {} THEN -1 ELSE (CHOOSE i \in hits : \A j \in hits : i <= j) - 1

\* String.prototype.lastIndexOf, 0-based, -1 when absent
LastIndexOf(s, sep) ==
  LET hits == {i \in 1..(Len(s) - Len(sep) + 1) : SubSeq(s, i, i + Len(sep) - 1) = sep}
  IN  IF hits = {} THEN -1 ELSE (CHOOSE i \in hits : \A j \in hits : i >= j) - 1

\* String.prototype.substring(a, b): negative arguments count as 0,
\* arguments beyond the length as the length, and they are swapped if a > b
Substring(s, a, b) ==
  LET clamp(n) == IF n < 0 THEN 0 ELSE IF n > Len(s) THEN Len(s) ELSE n
      lo == IF clamp(a) <= clamp(b) THEN clamp(a) ELSE clamp(b)
      hi == IF clamp(a) <= clamp(b) THEN clamp(b) ELSE clamp(a)
  IN  SubSeq(s, lo + 1, hi)

\* String.prototype.trim
Trim(s) ==
  LET keep == {i \in 1..Len(s) : ~IsSpace(s[i])}
  IN  IF keep = {} THEN <<>>
      ELSE SubSeq(s, CHOOSE i \in keep : \A j \in keep : i <= j,
                     CHOOSE i \in keep : \A j \in keep : i >= j)

\* parts[0] of filename.split(separator)
SplitFirst(s, sep) ==
  IF IndexOf(s, sep) = -1 THEN s ELSE SubSeq(s, 1, IndexOf(s, sep))

\* parts.length >= 2
SplitsInTwo(s, sep) == IndexOf(s, sep) # -1

\* end (1-based, inclusive) of the maximal digit run starting at position i
DigitRunEnd(s, i) ==
  CHOOSE e \in i..Len(s) :
    /\ \A k \in i..e : IsDigit(s[k])
    /\ (e = Len(s) \/ ~IsDigit(s[e + 1]))

\* filename.match(/MTI\d+/i): the leftmost match, NoMatch when there is none
MatchMti(s) ==
  LET starts == {i \in 1..(Len(s) - 3) :
                   /\ EqIgnoreCase(s[i], "M")
                   /\ EqIgnoreCase(s[i + 1], "T")
                   /\ EqIgnoreCase(s[i + 2], "I")
                   /\ IsDigit(s[i + 3])}
  IN  IF starts = {} THEN NoMatch
      ELSE LET i == CHOOSE i \in starts : \A j \in starts : i <= j
           IN  SubSeq(s, i, DigitRunEnd(s, i + 3))

\* filename.match(/\d+/): the leftmost digit run, NoMatch when there is none
MatchDigits(s) ==
  LET starts == {i \in 1..Len(s) : IsDigit(s[i])}
  IN  IF starts = {} THEN NoMatch
      ELSE LET i == CHOOSE i \in starts : \A j \in starts : i <= j
           IN  SubSeq(s, i, DigitRunEnd(s, i))

----------------------------------------------------------------------------
(* ImageProcessor.isValidEmployeeId *)
TestMti(c) ==
  /\ Len(c) >= 4
  /\ EqIgnoreCase(c[1], "M") /\ EqIgnoreCase(c[2], "T") /\ EqIgnoreCase(c[3], "I")
  /\ \A k \in 4..Len(c) : IsDigit(c[k])

\* variant of TestNumeric without the minimum length
TestNumeric_AnyLength(c) == Len(c) >= 1 /\ \A k \in 1..Len(c) : IsDigit(c[k])

TestNumeric(c) == Len(c) >= 3 /\ \A k \in 1..Len(c) : IsDigit(c[k])

\* variant of TestAlnum whose character class also holds the hyphen
TestAlnum_WithHyphen(c) ==
  /\ Len(c) >= 3
  /\ \A k \in 1..Len(c) : IsAlnum(c[k]) \/ c[k] = "-"
  /\ \E k \in 1..Len(c) : IsDigit(c[k])

TestAlnum(c) ==
  /\ Len(c) >= 3
  /\ \A k \in 1..Len(c) : IsAlnum(c[k])
  /\ \E k \in 1..Len(c) : IsDigit(c[k])

isValidEmployeeId(id) ==
  LET cleanId == Trim(id)
  IN  TestMti(cleanId) \/ TestNumeric(cleanId) \/ TestAlnum(cleanId)

(* ImageProcessor.extractEmployeeId *)
separators == << <<" ", "-", " ">>, <<"_">>, <<".">>, <<" ">>, <<"-">> >>

\* variant of Candidate that accepts the left part without validating it
Candidate_NoValidation(filename, k) ==
  LET potentialId == Trim(SplitFirst(filename, separators[k]))
  IN  IF SplitsInTwo(filename, separators[k]) THEN potentialId ELSE NoMatch

\* variant of Candidate that takes the text left of the last occurrence
Candidate_LastOccurrence(filename, k) ==
  LET potentialId == Trim(SubSeq(filename, 1, LastIndexOf(filename, separators[k])))
  IN  IF SplitsInTwo(filename, separators[k]) /\ isValidEmployeeId(potentialId)
      THEN potentialId ELSE NoMatch

\* the candidate of separator number k, NoMatch when it does not split or validate
Candidate(filename, k) ==
  LET potentialId == Trim(SplitFirst(filename, separators[k]))
  IN  IF SplitsInTwo(filename, separators[k]) /\ isValidEmployeeId(potentialId)
      THEN potentialId ELSE NoMatch

\* variant of extractEmployeeId whose last resort returns the trimmed filename
extractEmployeeId_TrimmedFallback(filename) ==
  LET winners == {k \in 1..Len(separators) : Candidate(filename, k) # NoMatch}
      trimmedFilename == Trim(filename)
  IN  IF winners # {}
        THEN Candidate(filename, CHOOSE k \in winners : \A j \in winners : k <= j)
      ELSE IF isValidEmployeeId(trimmedFilename) THEN trimmedFilename
      ELSE IF MatchMti(filename) # NoMatch THEN MatchMti(filename)
      ELSE IF MatchDigits(filename) # NoMatch THEN MatchDigits(filename)
      ELSE trimmedFilename

\* variant of extractEmployeeId that looks for a digit run before the MTI pattern
extractEmployeeId_DigitsBeforeMti(filename) ==
  LET winners == {k \in 1..Len(separators) : Candidate(filename, k) # NoMatch}
      trimmedFilename == Trim(filename)
  IN  IF winners # {}
        THEN Candidate(filename, CHOOSE k \in winners : \A j \in winners : k <= j)
      ELSE IF isValidEmployeeId(trimmedFilename) THEN trimmedFilename
      ELSE IF MatchDigits(filename) # NoMatch THEN MatchDigits(filename)
      ELSE IF MatchMti(filename) # NoMatch THEN MatchMti(filename)
      ELSE filename

\* variant of extractEmployeeId that puts MTI in front of a digit run
extractEmployeeId_PrefixedDigits(filename) ==
  LET winners == {k \in 1..Len(separators) : Candidate(filename, k) # NoMatch}
      trimmedFilename == Trim(filename)
  IN  IF winners # {}
        THEN Candidate(filename, CHOOSE k \in winners : \A j \in winners : k <= j)
      ELSE IF isValidEmployeeId(trimmedFilename) THEN trimmedFilename
      ELSE IF MatchMti(filename) # NoMatch THEN MatchMti(filename)
      ELSE IF MatchDigits(filename) # NoMatch THEN <<"M", "T", "I">> \o MatchDigits(filename)
      ELSE filename

extractEmployeeId(filename) ==
  LET winners == {k \in 1..Len(separators) : Candidate(filename, k) # NoMatch}
      trimmedFilename == Trim(filename)
  IN  IF winners # {}
        THEN Candidate(filename, CHOOSE k \in winners : \A j \in winners : k <= j)
      ELSE IF isValidEmployeeId(trimmedFilename) THEN trimmedFilename
      ELSE IF MatchMti(filename) # NoMatch THEN MatchMti(filename)
      ELSE IF MatchDigits(filename) # NoMatch THEN MatchDigits(filename)
      ELSE filename

----------------------------------------------------------------------------
(* Specification of the extractor: extractEmployeeId applied to one string *)
ExtractAlphabet == {"M", "T", "I", "1", "a", " ", "_", ".", "-"}

StringsUpTo(A, n) == UNION {[1..k -> A] : k \in 0..n}

MtiPrefixes ==
  { <<"M", "T", "I", "1">>, <<"M", "T", "I", "1", "2">>, <<"m", "t", "i", "7">>,
    <<"M", "t", "I", "0", "9">> }

\* "MTI<digits>", one of the separators, arbitrary trailing text
MtiFormInputs ==
  {p \o separators[k] \o t :
     p \in MtiPrefixes, k \in 1..Len(separators), t \in StringsUpTo(ExtractAlphabet, MaxTail)}

\* identifiers that hold a hyphen themselves
HyphenIds ==
  { <<"A", "B", "-", "1", "2", "3">>,
    <<"A", "1", "B", "-", "2">>,
    <<"M", "T", "I", "1", "-", "2">>,
    <<"1", "2", "-", "3", "4", "5">> }

\* "<id> - <name>" with a hyphen inside the id
HyphenFormInputs ==
  {p \o separators[1] \o t : p \in HyphenIds, t \in StringsUpTo(ExtractAlphabet, MaxTail)}

\* the filenames named in the documentation
ExampleInputs ==
  { <<"M", "T", "I", "1", "2", "3", "4", "5", " ", "-", " ", "J", "o", "h", "n", " ", "D", "o", "e">>,
    <<"M", "T", "I", "1", "2", "3", "4", "5", "_", "J", "o", "h", "n", "_", "D", "o", "e">>,
    <<"1", "2", "3", "4", "5", ".", "J", "o", "h", "n", ".", "D", "o", "e">>,
    <<"E", "m", "p", "l", "o", "y", "e", "e", "_", "1", "2", "3", "4", "5">>,
    <<"p", "h", "o", "t", "o">>,
    <<"A", "B", "-", "1", "2", "3", " ", "-", " ", "J", "o", "h", "n">> }

ExtractInputs ==
  StringsUpTo(ExtractAlphabet, MaxLen) \cup MtiFormInputs \cup HyphenFormInputs \cup ExampleInputs

NoGeo == [imageWidth |-> 0, imageHeight |-> 0, x |-> 0, y |-> 0, width |-> 0, height |-> 0, radiusPercent |-> 0]
NoCrop == [cropX |-> 0, cropY |-> 0, cropWidth |-> 0, cropHeight |-> 0]
NoBox == [x |-> 0, y |-> 0, width |-> 0, height |-> 0]
NoPage == [variant |-> 0]

\* the face selection is not running, the environment is not fixed and no page is open
NoVault == <<>>

\* no validation was made and no vault request is in progress
SideIdle == valid = FALSE /\ vault = NoVault

RestIdle ==
  /\ detections = <<>> /\ largestFace = NoBox
  /\ answers = <<>>
  /\ page = NoPage
  /\ SideIdle

BatchIdle ==
  /\ files = <<>> /\ task = <<>> /\ zipOk = FALSE /\ zip = {}
  /\ saved = [called |-> FALSE, content |-> {}] /\ thrown = None
  /\ results = [ready |-> FALSE, list |-> <<>>]

InitExtract ==
  /\ pc = "extract"
  /\ fname \in ExtractInputs
  /\ ident = NoMatch
  /\ geo = NoGeo /\ crop = NoCrop
  /\ BatchIdle
  /\ RestIdle

ExtractStep ==
  /\ pc = "extract"
  /\ pc' = "extracted"
  /\ ident' = extractEmployeeId(fname)
  /\ UNCHANGED <<files, task, zipOk, zip, saved, thrown, results, fname, geo, crop, detections, largestFace, answers, page, valid, vault>>

NextExtract == ExtractStep

SpecExtract == InitExtract /\ [][NextExtract]_vars

----------------------------------------------------------------------------
(* Specification of the repeated extraction: extractEmployeeId applied to  *)
(* a string and then to its own result                                     *)
ExtractAgainStep ==
  /\ pc = "extracted"
  /\ pc' = "extractedAgain"
  /\ fname' = ident
  /\ ident' = extractEmployeeId(ident)
  /\ UNCHANGED <<files, task, zipOk, zip, saved, thrown, results, geo, crop,
                 detections, largestFace, answers, page, valid, vault>>

NextTwice == ExtractStep \/ ExtractAgainStep

SpecTwice == InitExtract /\ [][NextTwice]_vars

----------------------------------------------------------------------------
(* Specification of the validation: isValidEmployeeId applied to one string *)
InitValid ==
  /\ pc = "validate"
  /\ fname \in ExtractInputs
  /\ ident = NoMatch
  /\ geo = NoGeo /\ crop = NoCrop
  /\ BatchIdle
  /\ RestIdle

ValidateStep ==
  /\ pc = "validate"
  /\ pc' = "validated"
  /\ valid' = isValidEmployeeId(fname)
  /\ UNCHANGED <<files, task, zipOk, zip, saved, thrown, results, fname, ident, geo, crop,
                 detections, largestFace, answers, page, vault>>

NextValid == ValidateStep

SpecValid == InitValid /\ [][NextValid]_vars

----------------------------------------------------------------------------
(* The crop computed in processImage, in units of 1/Scale pixel *)
Scale == 200
MinRadiusPercent == 5
MaxRadiusPercent == 100

Min(a, b) == IF a <= b THEN a ELSE b
Max(a, b) == IF a >= b THEN a ELSE b

\* Math.min(width, height) * adaptiveRadiusPercentage / 100
Radius(g) == Min(g.width, g.height) * g.radiusPercent * (Scale \div 100)
\* radius * 1.5 and radius * 0.5 (Radius is even, so both are exact)
\* variant of TopPadding that pads by the radius alone
TopPadding_Radius(g) == Radius(g)

TopPadding(g) == (Radius(g) * 3) \div 2

\* variant of BottomPadding that pads by twice the radius
BottomPadding_Double(g) == Radius(g) * 2

BottomPadding(g) == Radius(g) \div 2

\* variant of ComputeCrop that limits the size by the image size alone
ComputeCrop_SizeNotReduced(g) ==
  LET cx == Max(0, g.x * Scale - Radius(g))
      cy == Max(0, g.y * Scale - TopPadding(g))
  IN  [cropX |-> cx,
       cropY |-> cy,
       cropWidth |-> Min(g.imageWidth * Scale, g.width * Scale + 2 * Radius(g)),
       cropHeight |-> Min(g.imageHeight * Scale,
                          g.height * Scale + TopPadding(g) + BottomPadding(g))]

\* variant of ComputeCrop whose size is the face size, without the paddings
ComputeCrop_SizeWithoutPadding(g) ==
  LET cx == Max(0, g.x * Scale - Radius(g))
      cy == Max(0, g.y * Scale - TopPadding(g))
  IN  [cropX |-> cx,
       cropY |-> cy,
       cropWidth |-> Min(g.imageWidth * Scale - cx, g.width * Scale),
       cropHeight |-> Min(g.imageHeight * Scale - cy, g.height * Scale)]

ComputeCrop(g) ==
  LET cx == Max(0, g.x * Scale - Radius(g))
      cy == Max(0, g.y * Scale - TopPadding(g))
  IN  [cropX |-> cx,
       cropY |-> cy,
       cropWidth |-> Min(g.imageWidth * Scale - cx, g.width * Scale + 2 * Radius(g)),
       cropHeight |-> Min(g.imageHeight * Scale - cy,
                          g.height * Scale + TopPadding(g) + BottomPadding(g))]

(* Specification of the crop geometry: one image, one face box, one radius *)
\* the documented example: a 200x200 face at (100,100) in a 1000x1000 image at 50%
ExampleGeo ==
  [imageWidth |-> 1000, imageHeight |-> 1000, x |-> 100, y |-> 100,
   width |-> 200, height |-> 200, radiusPercent |-> 50]

CropInputs ==
  [imageWidth : 1..MaxDim, imageHeight : 1..MaxDim,
   x : 0..MaxDim, y : 0..MaxDim, width : 1..MaxDim, height : 1..MaxDim,
   radiusPercent : MinRadiusPercent..MaxRadiusPercent]
    \cup {ExampleGeo}

InitCrop ==
  /\ pc = "crop"
  /\ geo \in CropInputs
  /\ crop = NoCrop
  /\ fname = <<>> /\ ident = NoMatch
  /\ BatchIdle
  /\ RestIdle

CropStep ==
  /\ pc = "crop"
  /\ pc' = "cropped"
  /\ crop' = ComputeCrop(geo)
  /\ UNCHANGED <<files, task, zipOk, zip, saved, thrown, results, fname, ident, geo, detections, largestFace, answers, page, valid, vault>>

NextCrop == CropStep

SpecCrop == InitCrop /\ [][NextCrop]_vars

----------------------------------------------------------------------------
(* The choice of the largest face in processImage *)
Area(b) == b.width * b.height

\* variant of Larger that also replaces the box on equal areas
Larger_OrEqual(current, prev) == Area(current) >= Area(prev)

\* current.box.width * current.box.height > prev.box.width * prev.box.height
Larger(current, prev) == Area(current) > Area(prev)

\* detections.reduce((prev, current) => ... ? current : prev), no initial value:
\* the accumulator starts as the first detection
LargestFace(d) ==
  LET acc[k \in 1..Len(d)] ==
        IF k = 1 THEN d[1]
        ELSE IF Larger(d[k], acc[k - 1]) THEN d[k] ELSE acc[k - 1]
  IN  acc[Len(d)]

(* Specification of the face selection: one non-empty list of detections *)
Boxes == [x : 0..1, y : {0}, width : 1..MaxSide, height : 1..MaxSide]

DetectionLists == UNION {[1..n -> Boxes] : n \in 1..MaxBoxes}

InitFaces ==
  /\ pc = "select"
  /\ detections \in DetectionLists
  /\ largestFace = NoBox
  /\ answers = <<>> /\ page = NoPage
  /\ SideIdle
  /\ fname = <<>> /\ ident = NoMatch
  /\ geo = NoGeo /\ crop = NoCrop
  /\ BatchIdle

SelectStep ==
  /\ pc = "select"
  /\ pc' = "selected"
  /\ largestFace' = LargestFace(detections)
  /\ UNCHANGED <<files, task, zipOk, zip, saved, thrown, results, fname, ident, geo, crop,
                 detections, answers, page, valid, vault>>

NextFaces == SelectStep

SpecFaces == InitFaces /\ [][NextFaces]_vars

----------------------------------------------------------------------------
(* processImages and processImage *)
\* names of the input files
FileNames ==
  { <<"M", "T", "I", "1", "2", "_", "a", ".", "j", "p", "g">>,
    <<"M", "T", "I", "1", "2", " ", "b", ".", "p", "n", "g">>,
    <<"p", "h", "o", "t", "o">> }

\* root of zip.folder("processed_images"): JSZip prefixes it to every name
\* given to processedFolder.file
FolderPrefix == <<"p", "r", "o", "c", "e", "s", "s", "e", "d", "_", "i", "m", "a", "g", "e", "s", "/">>
JpgSuffix == <<".", "j", "p", "g">>

\* error messages
FolderError == "Failed to create zip folder"
GenerateError == "generateAsync rejected"
LoadError == "Failed to load image"
ContextError == "Failed to get canvas context"
DetectError == "detectAllFaces rejected"
NoFaceError == "No face detected in image"
CroppedContextError == "Failed to get cropped canvas context"
BlobError == "Failed to create image blob"

ArchiveErrors == {FolderError, GenerateError}

N == Len(files)

\* fileName.substring(0, fileName.lastIndexOf('.'))
FileNameWithoutExt(fileName) == Substring(fileName, 0, LastIndexOf(fileName, <<".">>))

\* variant of OutputFileName that keeps the stem instead of the identifier
OutputFileName_Stem(fileName) == FileNameWithoutExt(fileName) \o JpgSuffix

\* `${employeeId}.jpg`
OutputFileName(fileName) == extractEmployeeId(FileNameWithoutExt(fileName)) \o JpgSuffix

\* the output name of every input file name, computed once
OutputNameOf == [f \in FileNames |-> OutputFileName(f)]

\* value of a processing promise that has not settled yet
Pending == [settled |-> FALSE, success |-> FALSE, fileName |-> <<>>, error |-> None, threw |-> FALSE]

\* variant of TaskReturn that fails a photo whose entry name is already staged
TaskReturn_RejectDuplicate(fileName) ==
  IF \E e \in zip : e.name = FolderPrefix \o OutputNameOf[fileName]
  THEN [settled |-> TRUE, success |-> FALSE, fileName |-> fileName, error |-> "duplicate", threw |-> FALSE]
  ELSE [settled |-> TRUE, success |-> TRUE, fileName |-> OutputNameOf[fileName], error |-> None, threw |-> FALSE]

\* return { success: true, fileName: outputFileName }
TaskReturn(fileName) ==
  [settled |-> TRUE, success |-> TRUE, fileName |-> OutputNameOf[fileName], error |-> None, threw |-> FALSE]

\* variant of TaskCatch that rethrows: the task promise rejects
TaskCatch_Rethrow(fileName, error) ==
  [settled |-> TRUE, success |-> FALSE, fileName |-> fileName, error |-> error, threw |-> TRUE]

\* catch (error) { return { success: false, fileName: file.name, error } }
TaskCatch(fileName, error) ==
  [settled |-> TRUE, success |-> FALSE, fileName |-> fileName, error |-> error, threw |-> FALSE]

\* variant of ZipFile that keeps an existing entry of the same name as well
ZipFile_NoReplace(z, name, data) ==
  z \cup {[name |-> FolderPrefix \o name, dir |-> FALSE, data |-> data]}

\* variant of ZipFile that leaves an existing entry of the same name in place
ZipFile_FirstWins(z, name, data) ==
  IF \E e \in z : e.name = FolderPrefix \o name THEN z
  ELSE z \cup {[name |-> FolderPrefix \o name, dir |-> FALSE, data |-> data]}

\* processedFolder.file(name, data): adds the entry under the folder's root,
\* replacing an entry of the same name
ZipFile(z, name, data) ==
  {e \in z : e.name # FolderPrefix \o name}
    \cup {[name |-> FolderPrefix \o name, dir |-> FALSE, data |-> data]}

\* zip.folder("processed_images"): adds the directory entry
ZipFolder(z) == z \cup {[name |-> FolderPrefix, dir |-> TRUE, data |-> 0]}

\* a task right after imageFiles.map started it: the image is loading
Loading == [st |-> "loading", loaded |-> "pending", faces |-> "pending", blob |-> 0, error |-> None, result |-> Pending]

\* variant of Reject whose failed entry carries the output name
Reject_Staged(i, e) ==
  task' = [task EXCEPT ![i].st = "rejected", ![i].error = e,
                       ![i].result = TaskCatch(OutputFileName(files[i]), e)]

\* variant of Reject in which the rejection is not caught: the task promise stays pending
Reject_Unsettled(i, e) ==
  task' = [task EXCEPT ![i].st = "rejected", ![i].error = e]

\* processImage of file i rejects with error e and the catch of the task runs
Reject(i, e) ==
  task' = [task EXCEPT ![i].st = "rejected", ![i].error = e,
                       ![i].result = TaskCatch(files[i], e)]

NoSave == [called |-> FALSE, content |-> {}]
NoResults == [ready |-> FALSE, list |-> <<>>]

Init ==
  /\ pc = "idle"
  /\ \E n \in 0..MaxFiles : files \in [1..n -> FileNames]
  /\ task = <<>>
  /\ zipOk = FALSE
  /\ zip = {}
  /\ saved = NoSave
  /\ thrown = None
  /\ results = NoResults
  /\ fname = <<>> /\ ident = NoMatch
  /\ geo = NoGeo /\ crop = NoCrop
  /\ RestIdle

\* zip.folder returns null: processImages throws before any photo is started
StartFolderNull ==
  /\ pc = "idle"
  /\ pc' = "rejected"
  /\ thrown' = FolderError
  /\ UNCHANGED <<files, task, zipOk, zip, saved, results, fname, ident, geo, crop, detections, largestFace, answers, page, valid, vault>>

\* zip.folder succeeds and imageFiles.map(...) runs every task up to its
\* first await: each image is loading
Start ==
  /\ pc = "idle"
  /\ pc' = "running"
  /\ zipOk' = TRUE
  /\ zip' = ZipFolder(zip)
  /\ task' = [i \in 1..N |-> Loading]
  /\ UNCHANGED <<files, saved, thrown, results, fname, ident, geo, crop, detections, largestFace, answers, page, valid, vault>>

Untouched == UNCHANGED <<pc, files, zipOk, saved, thrown, results, fname, ident, geo, crop, detections, largestFace, answers, page, valid, vault>>

\* img.onerror
OnError(i) ==
  /\ i \in DOMAIN task /\ task[i].st = "loading"
  /\ task' = [task EXCEPT ![i].st = "rejected", ![i].loaded = "failed", ![i].error = LoadError,
                           ![i].result = TaskCatch(files[i], LoadError)]
  /\ UNCHANGED zip /\ Untouched

\* img.onload up to the await of detectAllFaces
OnLoad(i) ==
  /\ i \in DOMAIN task /\ task[i].st = "loading"
  /\ task' = [task EXCEPT ![i].st = "detecting", ![i].loaded = "ok"]
  /\ UNCHANGED zip /\ Untouched

\* img.onload when canvas.getContext returns null
OnLoadNoContext(i) ==
  /\ i \in DOMAIN task /\ task[i].st = "loading"
  /\ task' = [task EXCEPT ![i].st = "rejected", ![i].loaded = "ok", ![i].error = ContextError,
                           ![i].result = TaskCatch(files[i], ContextError)]
  /\ UNCHANGED zip /\ Untouched

\* detectAllFaces rejects
DetectRejects(i) ==
  /\ i \in DOMAIN task /\ task[i].st = "detecting"
  /\ Reject(i, DetectError)
  /\ UNCHANGED zip /\ Untouched

\* variant of DetectNoFace without the length check: the crop goes on
DetectNoFace_Continue(i) ==
  /\ i \in DOMAIN task /\ task[i].st = "detecting"
  /\ task' = [task EXCEPT ![i].st = "encoding", ![i].faces = "empty"]
  /\ UNCHANGED zip /\ Untouched

\* detectAllFaces resolves with an empty list
DetectNoFace(i) ==
  /\ i \in DOMAIN task /\ task[i].st = "detecting"
  /\ task' = [task EXCEPT ![i].st = "rejected", ![i].faces = "empty", ![i].error = NoFaceError,
                           ![i].result = TaskCatch(files[i], NoFaceError)]
  /\ UNCHANGED zip /\ Untouched

\* detectAllFaces resolves with at least one box: the crop is drawn and
\* toBlob is called
DetectFaces(i) ==
  /\ i \in DOMAIN task /\ task[i].st = "detecting"
  /\ task' = [task EXCEPT ![i].st = "encoding", ![i].faces = "nonempty"]
  /\ UNCHANGED zip /\ Untouched

\* detectAllFaces resolves with boxes but the second getContext returns null
DetectNoCroppedContext(i) ==
  /\ i \in DOMAIN task /\ task[i].st = "detecting"
  /\ task' = [task EXCEPT ![i].st = "rejected", ![i].faces = "nonempty",
                           ![i].error = CroppedContextError,
                           ![i].result = TaskCatch(files[i], CroppedContextError)]
  /\ UNCHANGED zip /\ Untouched

\* the toBlob callback gets null
BlobNull(i) ==
  /\ i \in DOMAIN task /\ task[i].st = "encoding"
  /\ Reject(i, BlobError)
  /\ UNCHANGED zip /\ Untouched

\* the toBlob callback gets the blob: processImage resolves, the task names
\* the output, stages it in the zip and returns
BlobReady(i) ==
  /\ i \in DOMAIN task /\ task[i].st = "encoding"
  /\ task' = [task EXCEPT ![i].st = "resolved", ![i].blob = i,
                           ![i].result = TaskReturn(files[i])]
  /\ zip' = ZipFile(zip, OutputNameOf[files[i]], i)
  /\ Untouched

\* variant of AwaitAll that goes on as soon as one promise is fulfilled
AwaitAll_Any ==
  /\ pc = "running"
  /\ \E i \in 1..N : task[i].result.settled
  /\ pc' = "finalizing"
  /\ results' = [ready |-> TRUE, list |-> [i \in 1..N |-> task[i].result]]
  /\ UNCHANGED <<files, task, zipOk, zip, saved, thrown, fname, ident, geo, crop, detections, largestFace, answers, page, valid, vault>>

\* await Promise.all(processingPromises): rejects with the first rejection,
\* resolves with all values once every promise is fulfilled; on resolution
\* zip.generateAsync is called
AwaitAll ==
  /\ pc = "running"
  /\ IF \E i \in 1..N : task[i].result.threw
     THEN /\ pc' = "rejected"
          /\ thrown' = task[CHOOSE i \in 1..N : task[i].result.threw].result.error
          /\ UNCHANGED results
     ELSE /\ \A i \in 1..N : task[i].result.settled
          /\ pc' = "finalizing"
          /\ results' = [ready |-> TRUE, list |-> [i \in 1..N |-> task[i].result]]
          /\ UNCHANGED thrown
  /\ UNCHANGED <<files, task, zipOk, zip, saved, fname, ident, geo, crop, detections, largestFace, answers, page, valid, vault>>

\* generateAsync resolves: saveAs(content, "processed_images.zip")
GenerateResolves ==
  /\ pc = "finalizing"
  /\ pc' = "done"
  /\ saved' = [called |-> TRUE, content |-> zip]
  /\ UNCHANGED <<files, task, zipOk, zip, thrown, results, fname, ident, geo, crop, detections, largestFace, answers, page, valid, vault>>

\* generateAsync rejects: the error leaves processImages, saveAs is skipped
GenerateRejects ==
  /\ pc = "finalizing"
  /\ pc' = "rejected"
  /\ thrown' = GenerateError
  /\ UNCHANGED <<files, task, zipOk, zip, saved, results, fname, ident, geo, crop, detections, largestFace, answers, page, valid, vault>>

Next ==
  \/ StartFolderNull
  \/ Start
  \/ \E i \in 1..N : OnError(i)
  \/ \E i \in 1..N : OnLoad(i)
  \/ \E i \in 1..N : OnLoadNoContext(i)
  \/ \E i \in 1..N : DetectRejects(i)
  \/ \E i \in 1..N : DetectNoFace(i)
  \/ \E i \in 1..N : DetectFaces(i)
  \/ \E i \in 1..N : DetectNoCroppedContext(i)
  \/ \E i \in 1..N : BlobNull(i)
  \/ \E i \in 1..N : BlobReady(i)
  \/ AwaitAll
  \/ GenerateResolves
  \/ GenerateRejects

Spec == Init /\ [][Next]_vars

----------------------------------------------------------------------------
(* processImages in a fixed environment: what the browser and the detector *)
(* do for each file is chosen before the batch starts, and only the order  *)
(* of the events is left open.  A detector that never settles its promise  *)
(* is one of the choices.                                                  *)
EnvAnswers ==
  {"loadfail", "noctx", "reject", "noface", "nocropctx", "blobnull", "ok", "hang"}

InitEnv ==
  /\ pc = "idle"
  /\ \E n \in 0..MaxEnvFiles :
       /\ files \in [1..n -> FileNames]
       /\ answers \in [1..n -> EnvAnswers]
  /\ task = <<>>
  /\ zipOk = FALSE
  /\ zip = {}
  /\ saved = NoSave
  /\ thrown = None
  /\ results = NoResults
  /\ fname = <<>> /\ ident = NoMatch
  /\ geo = NoGeo /\ crop = NoCrop
  /\ detections = <<>> /\ largestFace = NoBox /\ page = NoPage
  /\ SideIdle

\* the handlers of task i that its environment lets happen
EnvOnError(i) == i \in 1..N /\ answers[i] = "loadfail" /\ OnError(i)
EnvOnLoad(i) == i \in 1..N /\ answers[i] \notin {"loadfail", "noctx"} /\ OnLoad(i)
EnvOnLoadNoContext(i) == i \in 1..N /\ answers[i] = "noctx" /\ OnLoadNoContext(i)
EnvDetectRejects(i) == i \in 1..N /\ answers[i] = "reject" /\ DetectRejects(i)
EnvDetectNoFace(i) == i \in 1..N /\ answers[i] = "noface" /\ DetectNoFace(i)
EnvDetectFaces(i) == i \in 1..N /\ answers[i] \in {"blobnull", "ok"} /\ DetectFaces(i)
EnvDetectNoCroppedContext(i) ==
  i \in 1..N /\ answers[i] = "nocropctx" /\ DetectNoCroppedContext(i)
EnvBlobNull(i) == i \in 1..N /\ answers[i] = "blobnull" /\ BlobNull(i)
EnvBlobReady(i) == i \in 1..N /\ answers[i] = "ok" /\ BlobReady(i)

NextEnv ==
  \/ StartFolderNull
  \/ Start
  \/ \E i \in 1..MaxEnvFiles : EnvOnError(i)
  \/ \E i \in 1..MaxEnvFiles : EnvOnLoad(i)
  \/ \E i \in 1..MaxEnvFiles : EnvOnLoadNoContext(i)
  \/ \E i \in 1..MaxEnvFiles : EnvDetectRejects(i)
  \/ \E i \in 1..MaxEnvFiles : EnvDetectNoFace(i)
  \/ \E i \in 1..MaxEnvFiles : EnvDetectFaces(i)
  \/ \E i \in 1..MaxEnvFiles : EnvDetectNoCroppedContext(i)
  \/ \E i \in 1..MaxEnvFiles : EnvBlobNull(i)
  \/ \E i \in 1..MaxEnvFiles : EnvBlobReady(i)
  \/ AwaitAll
  \/ GenerateResolves
  \/ GenerateRejects

SpecEnv == InitEnv /\ [][NextEnv]_vars

\* every event the environment lets happen is delivered by the event loop,
\* every continuation that can run does run, and the archive is generated
FairEnv ==
  /\ WF_vars(Start)
  /\ \A i \in 1..MaxEnvFiles :
       /\ WF_vars(EnvOnError(i))
       /\ WF_vars(EnvOnLoad(i))
       /\ WF_vars(EnvOnLoadNoContext(i))
       /\ WF_vars(EnvDetectRejects(i))
       /\ WF_vars(EnvDetectNoFace(i))
       /\ WF_vars(EnvDetectFaces(i))
       /\ WF_vars(EnvDetectNoCroppedContext(i))
       /\ WF_vars(EnvBlobNull(i))
       /\ WF_vars(EnvBlobReady(i))
  /\ WF_vars(AwaitAll)
  /\ WF_vars(GenerateResolves)

SpecLive == InitEnv /\ [][NextEnv]_vars /\ FairEnv

----------------------------------------------------------------------------
(* The Index page: the radius slider, the file selection and the process   *)
(* button.  Index.tsx holds two versions of the page; page.variant tells   *)
(* which one is mounted.                                                   *)
AdaptiveRadiusDefault == 25
AdaptiveRadiusMin == 5
AdaptiveRadiusMax == 50
AdaptiveRadiusStep == 1
CroppingDefault == 70
CroppingMin == 10
CroppingMax == 100
CroppingStep == 5

\* the values a Slider with these min, max and step hands to onValueChange
SliderValues(min, max, step) == {min + k * step : k \in 0..((max - min) \div step)}

\* the state of a page right after mounting, with the given radius state
Mounted(v, r) ==
  [variant |-> v, radius |-> r, images |-> 0, excel |-> 0, option |-> "images",
   isProcessing |-> FALSE, modelsLoaded |-> FALSE, calls |-> 0,
   called |-> FALSE, passed |-> 0]

PageRest ==
  /\ pc = "page"
  /\ fname = <<>> /\ ident = NoMatch
  /\ geo = NoGeo /\ crop = NoCrop
  /\ detections = <<>> /\ largestFace = NoBox /\ answers = <<>>
  /\ SideIdle
  /\ BatchIdle

\* variant of InitIndex whose radius state starts at 0
InitIndex_ZeroDefault ==
  /\ page \in {Mounted(1, 0), Mounted(2, 0)}
  /\ PageRest

InitIndex ==
  /\ page \in {Mounted(1, AdaptiveRadiusDefault), Mounted(2, CroppingDefault)}
  /\ PageRest

PageOnly ==
  UNCHANGED <<pc, files, task, zipOk, zip, saved, thrown, results, fname, ident, geo, crop,
              detections, largestFace, answers, valid, vault>>

(* first version *)
\* setAdaptiveRadiusPercentage(value[0])
handleAdaptiveRadiusChange(v) ==
  /\ page.variant = 1
  /\ page' = [page EXCEPT !.radius = v]
  /\ PageOnly

\* setImageFiles([...prevFiles, ...acceptedFiles])
onFileAccepted(n) ==
  /\ page.variant = 1
  /\ page.images + n <= MaxSelected
  /\ page' = [page EXCEPT !.images = page.images + n]
  /\ PageOnly

\* a click on the button, which is disabled while processing or without
\* files: up to the await of processImages
handleProcessImages ==
  /\ page.variant = 1
  /\ ~(page.isProcessing \/ page.images = 0)
  /\ page.calls < MaxCalls
  /\ page' = [page EXCEPT !.isProcessing = TRUE, !.calls = page.calls + 1,
                          !.called = TRUE, !.passed = page.radius]
  /\ PageOnly

\* processImages settles: catch and finally of handleProcessImages
ProcessImagesSettles ==
  /\ page.variant = 1
  /\ page.calls > 0
  /\ page' = [page EXCEPT !.isProcessing = FALSE, !.calls = page.calls - 1]
  /\ PageOnly

handleModelsLoaded ==
  /\ page.variant = 1
  /\ ~page.modelsLoaded
  /\ page' = [page EXCEPT !.modelsLoaded = TRUE]
  /\ PageOnly

(* second version *)
\* onValueChange={values => setCroppingPercentage(values[0])}
setCroppingPercentage(v) ==
  /\ page.variant = 2
  /\ page' = [page EXCEPT !.radius = v]
  /\ PageOnly

\* setSelectedImages(files)
handleImagesSelected(n) ==
  /\ page.variant = 2
  /\ page' = [page EXCEPT !.images = n]
  /\ PageOnly

\* setSelectedExcelFiles(files)
handleExcelFilesSelected(n) ==
  /\ page.variant = 2
  /\ page' = [page EXCEPT !.excel = n]
  /\ PageOnly

setProcessingOption(o) ==
  /\ page.variant = 2
  /\ page' = [page EXCEPT !.option = o]
  /\ PageOnly

\* the disabled attribute of the second version's button
ProcessDisabled ==
  \/ page.isProcessing
  \/ ~page.modelsLoaded
  \/ (page.images = 0
       /\ (page.option = "images" \/ (page.option = "both" /\ page.excel = 0)))

\* a click on the button: processImages is called inside toast.promise
\* without await, and isProcessing is false again when the handler ends
handleProcess ==
  /\ page.variant = 2
  /\ ~ProcessDisabled
  /\ IF \/ page.option = "images" /\ page.images > 0
        \/ page.option = "both" /\ page.images > 0 /\ page.excel > 0
     THEN /\ page.calls < MaxCalls
          /\ page' = [page EXCEPT !.isProcessing = FALSE, !.calls = page.calls + 1,
                                  !.called = TRUE, !.passed = page.radius]
     ELSE page' = [page EXCEPT !.isProcessing = FALSE]
  /\ PageOnly

\* a processImages call of the second version settles: only the toast changes
ToastPromiseSettles ==
  /\ page.variant = 2
  /\ page.calls > 0
  /\ page' = [page EXCEPT !.calls = page.calls - 1]
  /\ PageOnly

handleModelLoadingComplete ==
  /\ page.variant = 2
  /\ ~page.modelsLoaded
  /\ page' = [page EXCEPT !.modelsLoaded = TRUE]
  /\ PageOnly

NextIndex ==
  \/ \E v \in SliderValues(AdaptiveRadiusMin, AdaptiveRadiusMax, AdaptiveRadiusStep) :
       handleAdaptiveRadiusChange(v)
  \/ \E n \in 1..MaxSelected : onFileAccepted(n)
  \/ handleProcessImages
  \/ ProcessImagesSettles
  \/ handleModelsLoaded
  \/ \E v \in SliderValues(CroppingMin, CroppingMax, CroppingStep) : setCroppingPercentage(v)
  \/ \E n \in 0..MaxSelected : handleImagesSelected(n)
  \/ \E n \in 0..1 : handleExcelFilesSelected(n)
  \/ \E o \in {"images", "both"} : setProcessingOption(o)
  \/ handleProcess
  \/ ToastPromiseSettles
  \/ handleModelLoadingComplete

SpecIndex == InitIndex /\ [][NextIndex]_vars

----------------------------------------------------------------------------
(* The vault routes: POST /api/vault, PUT /api/vault/:id and               *)
(* POST /api/vault/:id/activate working on the VaultConfigurations table.  *)
(* Every database.executeQuery is one atomic statement; a handler gives up *)
(* control at each await, where the statements of other requests may run.  *)
(* vault.audit is the action of the newest audit record.                   *)
ConfigIds == 1..MaxConfigs
RequestSlots == 1..MaxRequests

NoRow == [exists |-> FALSE, active |-> FALSE]
IdleRequest == [pc |-> "idle", id |-> 0, isActive |-> "undefined"]

\* the table after schema.sql: the seeded row, IsActive by its default 1
SeededRows == [c \in ConfigIds |-> IF c = 1 THEN [exists |-> TRUE, active |-> TRUE] ELSE NoRow]

InitVault ==
  /\ pc = "vault"
  /\ vault = [rows |-> SeededRows,
              reqs |-> [r \in RequestSlots |-> IdleRequest],
              completed |-> FALSE,
              audit |-> ""]
  /\ valid = FALSE
  /\ fname = <<>> /\ ident = NoMatch
  /\ geo = NoGeo /\ crop = NoCrop
  /\ detections = <<>> /\ largestFace = NoBox /\ answers = <<>> /\ page = NoPage
  /\ BatchIdle

VaultOnly ==
  UNCHANGED <<pc, files, task, zipOk, zip, saved, thrown, results, fname, ident, geo, crop,
              detections, largestFace, answers, page, valid>>

\* UPDATE VaultConfigurations SET IsActive = 0
DeactivateAll(rows) == [c \in ConfigIds |-> [rows[c] EXCEPT !.active = FALSE]]

\* UPDATE VaultConfigurations SET IsActive = 0 WHERE Id != @id
DeactivateOthers(rows, id) ==
  [c \in ConfigIds |-> IF c # id THEN [rows[c] EXCEPT !.active = FALSE] ELSE rows[c]]

\* UPDATE VaultConfigurations SET IsActive = @a WHERE Id = @id
SetActive(rows, id, a) ==
  [c \in ConfigIds |-> IF c = id /\ rows[c].exists THEN [rows[c] EXCEPT !.active = a] ELSE rows[c]]

\* INSERT INTO VaultConfigurations with a fresh Id
FreshIds(rows) == {c \in ConfigIds : ~rows[c].exists}
Insert(rows, id, a) == [rows EXCEPT ![id] = [exists |-> TRUE, active |-> a]]

(* POST /api/vault *)
\* req.body.isActive is set: the handler up to and with the UPDATE that
\* deactivates every row
PostDeactivateAll(r) ==
  /\ vault.reqs[r].pc = "idle"
  /\ vault' = [vault EXCEPT !.rows = DeactivateAll(vault.rows),
                            !.reqs[r] = [pc |-> "post_insert", id |-> 0, isActive |-> "true"]]
  /\ VaultOnly

\* the INSERT of the active row, the audit and the response
PostInsert(r) ==
  /\ vault.reqs[r].pc = "post_insert"
  /\ \E id \in FreshIds(vault.rows) :
       vault' = [vault EXCEPT !.rows = Insert(vault.rows, id, TRUE),
                              !.reqs[r] = IdleRequest,
                              !.completed = TRUE,
                              !.audit = "CREATE_VAULT_CONFIG"]
  /\ VaultOnly

\* req.body.isActive is not set: the row is inserted inactive
PostInsertInactive(r) ==
  /\ vault.reqs[r].pc = "idle"
  /\ \E id \in FreshIds(vault.rows) :
       vault' = [vault EXCEPT !.rows = Insert(vault.rows, id, FALSE),
                              !.audit = "CREATE_VAULT_CONFIG"]
  /\ VaultOnly

(* PUT /api/vault/:id *)
\* SELECT Id ... WHERE Id = @id: 404 when the row is missing
PutSelect(r, id, a) ==
  /\ vault.reqs[r].pc = "idle"
  /\ IF vault.rows[id].exists
     THEN vault' = [vault EXCEPT !.reqs[r] =
                      [pc |-> IF a = "true" THEN "put_deactivate" ELSE "put_update",
                       id |-> id, isActive |-> a]]
     ELSE UNCHANGED vault
  /\ VaultOnly

\* if (isActive): UPDATE ... SET IsActive = 0 WHERE Id != @id
PutDeactivateOthers(r) ==
  /\ vault.reqs[r].pc = "put_deactivate"
  /\ vault' = [vault EXCEPT !.rows = DeactivateOthers(vault.rows, vault.reqs[r].id),
                            !.reqs[r].pc = "put_update"]
  /\ VaultOnly

\* UPDATE ... SET <fields> WHERE Id = @id, the audit and the response
PutUpdate(r) ==
  /\ vault.reqs[r].pc = "put_update"
  /\ vault' = [vault EXCEPT
                 !.rows = IF vault.reqs[r].isActive = "undefined" THEN vault.rows
                          ELSE SetActive(vault.rows, vault.reqs[r].id,
                                         vault.reqs[r].isActive = "true"),
                 !.reqs[r] = IdleRequest,
                 !.completed = vault.completed \/ vault.reqs[r].isActive = "true",
                 !.audit = "UPDATE_VAULT_CONFIG"]
  /\ VaultOnly

(* POST /api/vault/:id/activate *)
\* SELECT Id, Name ... WHERE Id = @id: 404 when the row is missing
ActivateSelect(r, id) ==
  /\ vault.reqs[r].pc = "idle"
  /\ IF vault.rows[id].exists
     THEN vault' = [vault EXCEPT !.reqs[r] =
                      [pc |-> "act_deactivate", id |-> id, isActive |-> "true"]]
     ELSE UNCHANGED vault
  /\ VaultOnly

\* UPDATE ... SET IsActive = 0
ActivateDeactivateAll(r) ==
  /\ vault.reqs[r].pc = "act_deactivate"
  /\ vault' = [vault EXCEPT !.rows = DeactivateAll(vault.rows),
                            !.reqs[r].pc = "act_activate"]
  /\ VaultOnly

\* UPDATE ... SET IsActive = 1 WHERE Id = @id, the audit and the response
ActivateSet(r) ==
  /\ vault.reqs[r].pc = "act_activate"
  /\ vault' = [vault EXCEPT !.rows = SetActive(vault.rows, vault.reqs[r].id, TRUE),
                            !.reqs[r] = IdleRequest,
                            !.completed = TRUE,
                            !.audit = "ACTIVATE_VAULT_CONFIG"]
  /\ VaultOnly

\* a statement of request r rejects: the catch answers 500
QueryFails(r) ==
  /\ vault.reqs[r].pc # "idle"
  /\ vault' = [vault EXCEPT !.reqs[r] = IdleRequest]
  /\ VaultOnly

NextVault ==
  \/ \E r \in RequestSlots : ActivateSet(r)
  \/ \E r \in RequestSlots : ActivateDeactivateAll(r)
  \/ \E r \in RequestSlots : \E id \in ConfigIds : ActivateSelect(r, id)
  \/ \E r \in RequestSlots : PostDeactivateAll(r)
  \/ \E r \in RequestSlots : PostInsert(r)
  \/ \E r \in RequestSlots : PostInsertInactive(r)
  \/ \E r \in RequestSlots : \E id \in ConfigIds : \E a \in {"undefined", "true", "false"} :
       PutSelect(r, id, a)
  \/ \E r \in RequestSlots : PutDeactivateOthers(r)
  \/ \E r \in RequestSlots : PutUpdate(r)
  \/ \E r \in RequestSlots : QueryFails(r)

SpecVault == InitVault /\ [][NextVault]_vars

----------------------------------------------------------------------------
(* Claims about extractEmployeeId *)

\* C4 as stated: for every input string, the empty string included, the
\* result of extractEmployeeId is a non-empty string.
C4_AlwaysNonEmpty == pc = "extracted" => ident # <<>>

\* C4 amended: for every non-empty input string (whitespace-only strings
\* included) the result of extractEmployeeId is a non-empty string, and for
\* the empty string the result is the empty string.
C4_NonEmptyForNonEmptyInput ==
  pc = "extracted" => (IF fname = <<>> THEN ident = <<>> ELSE ident # <<>> /\ ident # NoMatch)

\* a whitespace-only input went through the whole fallback chain
C4_Witness ==
  /\ pc = "extracted" /\ fname # <<>>
  /\ \A k \in 1..Len(fname) : IsSpace(fname[k])
  /\ ident = fname

\* length of the leading "MTI<digits>" of s (case-insensitive), 0 when s
\* does not start with MTI and a digit
MtiPrefixLen(s) ==
  IF /\ Len(s) >= 4
     /\ EqIgnoreCase(s[1], "M") /\ EqIgnoreCase(s[2], "T") /\ EqIgnoreCase(s[3], "I")
     /\ IsDigit(s[4])
  THEN DigitRunEnd(s, 4) ELSE 0

\* s is "MTI<digits>" immediately followed by one of the separators
IsMtiForm(s) ==
  /\ MtiPrefixLen(s) > 0
  /\ \E k \in 1..Len(separators) :
       /\ MtiPrefixLen(s) + Len(separators[k]) <= Len(s)
       /\ SubSeq(s, MtiPrefixLen(s) + 1, MtiPrefixLen(s) + Len(separators[k])) = separators[k]

\* C5: for every filename made of MTI<digits> (any case), one of the
\* separators and arbitrary trailing text, extractEmployeeId returns exactly
\* the MTI<digits> prefix.
C5_MtiPrefixReturned ==
  (pc = "extracted" /\ IsMtiForm(fname)) => ident = SubSeq(fname, 1, MtiPrefixLen(fname))

\* an MTI-form filename whose trailing text holds an earlier-priority
\* separator than the one that follows the prefix
C5_Witness ==
  /\ pc = "extracted" /\ IsMtiForm(fname)
  /\ fname[MtiPrefixLen(fname) + 1] = "_"
  /\ IndexOf(fname, separators[1]) > MtiPrefixLen(fname)
  /\ ident = SubSeq(fname, 1, MtiPrefixLen(fname))

\* C23: isValidEmployeeId accepts a candidate exactly when, after
\* trimming, it is MTI (in any case) followed only by one or more digits,
\* or digits only of length at least 3, or letters and digits only of
\* length at least 3 with at least one digit; a candidate shorter than 3,
\* without a digit, or with any other character is rejected.
C23_AcceptsExactlyThreeForms ==
  pc = "validated" =>
    LET c == Trim(fname)
        mtiDigits == /\ Len(c) >= 4
                     /\ c[1] \in {"M", "m"} /\ c[2] \in {"T", "t"} /\ c[3] \in {"I", "i"}
                     /\ \A k \in 4..Len(c) : c[k] \in Digit
        digitsOnly == Len(c) >= 3 /\ \A k \in 1..Len(c) : c[k] \in Digit
        alnumDigit == /\ Len(c) >= 3
                      /\ \A k \in 1..Len(c) : c[k] \in Letter \cup Digit
                      /\ \E k \in 1..Len(c) : c[k] \in Digit
    IN  /\ valid = (mtiDigits \/ digitsOnly \/ alnumDigit)
        /\ Len(c) < 3 => ~valid
        /\ (\A k \in 1..Len(c) : c[k] \notin Digit) => ~valid
        /\ (\E k \in 1..Len(c) : c[k] \notin Letter \cup Digit) => ~valid

\* a candidate with spaces around it that is accepted only as letters and
\* digits with a digit
C23_Witness ==
  /\ pc = "validated" /\ valid
  /\ fname # Trim(fname) /\ Len(Trim(fname)) = 3
  /\ Trim(fname)[1] \in Letter \ {"M", "m"}
  /\ \E k \in 1..3 : Trim(fname)[k] \in Digit

\* C24: extractEmployeeId is idempotent: applied to its own result it
\* returns that result.
C24_Idempotent == pc = "extractedAgain" => ident = fname

\* a first result that is a single digit and does not validate, and is
\* still returned unchanged by the second application
C24_Witness ==
  /\ pc = "extractedAgain"
  /\ Len(fname) = 1 /\ fname[1] \in Digit /\ ~isValidEmployeeId(fname)
  /\ ident = fname

\* C29: extractEmployeeId never invents characters: the result is a
\* contiguous substring of the filename.
C29_ResultIsSubstring ==
  pc = "extracted" =>
    \E a \in 1..(Len(fname) + 1) : \E b \in (a - 1)..Len(fname) :
      ident = SubSeq(fname, a, b)

\* the result lies strictly inside the filename
C29_Witness ==
  /\ pc = "extracted" /\ ident # <<>>
  /\ \E a \in 2..Len(fname) : \E b \in a..(Len(fname) - 1) :
       ident = SubSeq(fname, a, b)

\* the text left of the first occurrence of separator k, trimmed
LeftOfFirst(s, k) == Trim(SubSeq(s, 1, IndexOf(s, separators[k])))

\* separator k occurs in s and the text left of it passes the validation
Validates(s, k) == IndexOf(s, separators[k]) # -1 /\ isValidEmployeeId(LeftOfFirst(s, k))

\* C15: the separators are tried in the order " - ", "_", ".", " ", "-";
\* the result is the trimmed text left of the first occurrence of the first
\* separator in that order whose text validates, wherever the other
\* separators occur and whether or not they validate too; "12345.John.Doe"
\* gives "12345".
C15_FirstValidSeparatorInOrder ==
  pc = "extracted" =>
    /\ separators = << <<" ", "-", " ">>, <<"_">>, <<".">>, <<" ">>, <<"-">> >>
    /\ \A k \in 1..5 :
         (Validates(fname, k) /\ \A j \in 1..(k - 1) : ~Validates(fname, j))
           => ident = LeftOfFirst(fname, k)
    /\ (fname = <<"1", "2", "3", "4", "5", ".", "J", "o", "h", "n", ".", "D", "o", "e">> => ident = <<"1", "2", "3", "4", "5">>)

\* "_" comes before " " in the order but after it in the string, both
\* validate, and the text left of "_" is returned
C15_Witness ==
  /\ pc = "extracted"
  /\ Validates(fname, 2) /\ Validates(fname, 4) /\ ~Validates(fname, 1)
  /\ IndexOf(fname, separators[4]) < IndexOf(fname, separators[2])
  /\ ident = LeftOfFirst(fname, 2)

\* "<id> - <name>" where the id, the trimmed text left of " - ", holds a hyphen
IsHyphenIdForm(s) ==
  /\ IndexOf(s, separators[1]) # -1
  /\ \E k \in 1..Len(LeftOfFirst(s, 1)) : LeftOfFirst(s, 1)[k] = "-"

\* C16: for "<id> - <name>" with a hyphen inside the id, the whole id is
\* returned unsplit.
C16_WholeHyphenIdReturned ==
  (pc = "extracted" /\ IsHyphenIdForm(fname)) => ident = LeftOfFirst(fname, 1)

\* C16 as amended: for "<id> - <name>" with a hyphen inside the id, the id
\* is never the result: the result is the unchanged filename or a text
\* without any hyphen (a validated fragment, an MTI match or a digit run).
C16_HyphenIdNeverReturned ==
  (pc = "extracted" /\ IsHyphenIdForm(fname)) =>
    /\ ident # LeftOfFirst(fname, 1)
    /\ ident = fname \/ \A k \in 1..Len(ident) : ident[k] # "-"
    /\ (fname = <<"A", "B", "-", "1", "2", "3", " ", "-", " ", "J", "o", "h", "n">> => ident = <<"1", "2", "3">>)

C16_Witness ==
  /\ pc = "extracted"
  /\ fname = <<"A", "B", "-", "1", "2", "3", " ", "-", " ", "J", "o", "h", "n">>
  /\ IsHyphenIdForm(fname)
  /\ ident = <<"1", "2", "3">>

\* C17: when no separator gives a validated text, the result is the trimmed
\* filename if it validates, else the first match of MTI and digits, else
\* the first run of digits, else the filename unchanged; "Employee_12345"
\* gives "12345" and "photo" gives "photo".
C17_FallbackOrder ==
  (pc = "extracted" /\ \A k \in 1..Len(separators) : ~Validates(fname, k)) =>
    /\ isValidEmployeeId(Trim(fname)) => ident = Trim(fname)
    /\ (~isValidEmployeeId(Trim(fname)) /\ MatchMti(fname) # NoMatch)
         => ident = MatchMti(fname)
    /\ (~isValidEmployeeId(Trim(fname)) /\ MatchMti(fname) = NoMatch
           /\ MatchDigits(fname) # NoMatch)
         => ident = MatchDigits(fname)
    /\ (~isValidEmployeeId(Trim(fname)) /\ MatchMti(fname) = NoMatch
           /\ MatchDigits(fname) = NoMatch)
         => ident = fname
    /\ (fname = <<"E", "m", "p", "l", "o", "y", "e", "e", "_", "1", "2", "3", "4", "5">> => ident = <<"1", "2", "3", "4", "5">>)
    /\ (fname = <<"p", "h", "o", "t", "o">> => ident = <<"p", "h", "o", "t", "o">>)

\* no separator validates, the filename does not validate, both patterns
\* match, and the MTI match is returned, not the digit run
C17_Witness ==
  /\ pc = "extracted"
  /\ \A k \in 1..Len(separators) : ~Validates(fname, k)
  /\ ~isValidEmployeeId(Trim(fname))
  /\ MatchMti(fname) # NoMatch /\ MatchDigits(fname) # NoMatch
  /\ MatchMti(fname) # MatchDigits(fname)
  /\ ident = MatchMti(fname)

----------------------------------------------------------------------------
(* Claims about the crop geometry *)

\* C6: for every image size, every face box with non-negative x, y and
\* positive width, height and every radiusPercent in [5,100], the crop has
\* cropX >= 0, cropY >= 0, cropX + cropWidth <= imageWidth and
\* cropY + cropHeight <= imageHeight.
C6_CropInsideImage ==
  pc = "cropped" =>
    /\ crop.cropX >= 0
    /\ crop.cropY >= 0
    /\ crop.cropX + crop.cropWidth <= geo.imageWidth * Scale
    /\ crop.cropY + crop.cropHeight <= geo.imageHeight * Scale

\* a crop whose origin is moved right of 0 and whose width is cut at the
\* right edge of the image, with the face box inside the image
C6_Witness ==
  /\ pc = "cropped"
  /\ geo.x + geo.width <= geo.imageWidth /\ geo.y + geo.height <= geo.imageHeight
  /\ crop.cropX > 0
  /\ crop.cropWidth < geo.width * Scale + 2 * Radius(geo)
  /\ crop.cropX + crop.cropWidth = geo.imageWidth * Scale

\* the face box lies inside the image
FaceInside == geo.x + geo.width <= geo.imageWidth /\ geo.y + geo.height <= geo.imageHeight

\* distance from the top edge of the crop down to the top edge of the face
AboveFace == geo.y * Scale - crop.cropY

\* distance from the bottom edge of the face down to the bottom edge of the crop
BelowFace == (crop.cropY + crop.cropHeight) - (geo.y + geo.height) * Scale

\* C18: for every face box inside the image and every radiusPercent in
\* [5,100] the crop reaches at least as far above the face as below it.
C18_AboveAtLeastBelow ==
  (pc = "cropped" /\ FaceInside) => AboveFace >= BelowFace

\* C18 as amended: the crop reaches at least as far above the face as
\* below it when the face's top edge is at least the radius below the top
\* of the image; when it is nearer to the top and the image has room for
\* the whole crop height, the crop reaches further below the face
\* (2*radius - y) than above it (y).
C18_AboveAtLeastBelowAwayFromTop ==
  (pc = "cropped" /\ FaceInside) =>
    /\ 100 * geo.y >= Min(geo.width, geo.height) * geo.radiusPercent
         => AboveFace >= BelowFace
    /\ (/\ 100 * geo.y < Min(geo.width, geo.height) * geo.radiusPercent
        /\ 100 * geo.height + 2 * Min(geo.width, geo.height) * geo.radiusPercent
             <= 100 * geo.imageHeight)
         => /\ AboveFace = geo.y * Scale
            /\ AboveFace < BelowFace
            /\ 100 * (AboveFace + BelowFace)
                 = 2 * Min(geo.width, geo.height) * geo.radiusPercent * Scale

\* a face whose top edge is exactly the radius below the top of the image:
\* the crop starts at the top of the image and reaches equally far above
\* and below the face
C18_Witness ==
  /\ pc = "cropped" /\ FaceInside
  /\ 100 * geo.y = Min(geo.width, geo.height) * geo.radiusPercent
  /\ crop.cropY = 0
  /\ AboveFace > 0 /\ AboveFace = BelowFace

C26_CropContainsFace ==
  (pc = "cropped" /\ FaceInside) =>
    /\ crop.cropX <= geo.x * Scale
    /\ crop.cropY <= geo.y * Scale
    /\ (geo.x + geo.width) * Scale <= crop.cropX + crop.cropWidth
    /\ (geo.y + geo.height) * Scale <= crop.cropY + crop.cropHeight

\* the crop is clamped at the top and the left edge and cut at the right
\* and the bottom edge, and the face box lies strictly inside it on the
\* left and above
C26_Witness ==
  /\ pc = "cropped" /\ FaceInside
  /\ geo.x > 0 /\ geo.y > 0
  /\ geo.x * Scale < Radius(geo) /\ geo.y * Scale < TopPadding(geo)
  /\ crop.cropX = 0 /\ crop.cropY = 0
  /\ crop.cropWidth = geo.imageWidth * Scale
  /\ crop.cropWidth < geo.width * Scale + 2 * Radius(geo)
  /\ crop.cropHeight = geo.imageHeight * Scale
  /\ crop.cropHeight < geo.height * Scale + 2 * Radius(geo)

----------------------------------------------------------------------------
(* Claims about processImages *)
Tasks == DOMAIN task
Succeeded == {i \in DOMAIN results.list : results.list[i].success}
Failed == {i \in DOMAIN results.list : results.list[i].error # None}
FilesOf(content) == {e \in content : ~e.dir}
NoFaceTasks == {i \in Tasks : task[i].faces = "empty"}
\* every photo either transcoded or had no detectable face
NoFaceOrTranscoded == \A i \in Tasks : task[i].st = "resolved" \/ task[i].faces = "empty"

\* C1 as stated: with exactly k photos without a face and the others
\* transcoding, there are N-k succeeded entries, k failed entries, each with
\* the no-face reason, and the delivered archive holds exactly N-k files,
\* for every choice of file names.
C1_CountsAndArchiveSize ==
  (pc = "done" /\ NoFaceOrTranscoded) =>
    /\ Cardinality(Succeeded) = N - Cardinality(NoFaceTasks)
    /\ Cardinality(Failed) = Cardinality(NoFaceTasks)
    /\ \A i \in Failed : results.list[i].error = NoFaceError
    /\ Cardinality(FilesOf(saved.content)) = N - Cardinality(NoFaceTasks)

\* C1 amended: N-k succeeded entries and k failed entries with the no-face
\* reason; the delivered archive holds one file per distinct output name of
\* the succeeded photos, hence exactly N-k files when those names are
\* pairwise distinct and fewer when two photos share an identifier.
C1_CountsAndDistinctNames ==
  (pc = "done" /\ NoFaceOrTranscoded) =>
    /\ Cardinality(Succeeded) = N - Cardinality(NoFaceTasks)
    /\ Cardinality(Failed) = Cardinality(NoFaceTasks)
    /\ \A i \in Failed : results.list[i].error = NoFaceError
    /\ Cardinality(FilesOf(saved.content))
         = Cardinality({results.list[i].fileName : i \in Succeeded})
    /\ (\A i, j \in Succeeded : i # j => results.list[i].fileName # results.list[j].fileName)
         => Cardinality(FilesOf(saved.content)) = N - Cardinality(NoFaceTasks)

\* three photos, one without a face, the two others under different names
C1_Witness ==
  /\ pc = "done" /\ NoFaceOrTranscoded /\ N = 3
  /\ Cardinality(NoFaceTasks) = 1
  /\ Cardinality(Succeeded) = 2
  /\ Cardinality(FilesOf(saved.content)) = 2

\* C2: every photo yields exactly one result entry, succeeded or failed and
\* never both or neither, no task promise rejects, and once Promise.all has
\* resolved |succeeded| + |failed| = N; while a photo is unsettled the batch
\* keeps running and that photo's next handler can run whatever happened to
\* the other photos.
C2_OneResultPerPhoto ==
  /\ \A i \in Tasks :
       /\ ~task[i].result.threw
       /\ task[i].result.settled <=> (task[i].st \in {"resolved", "rejected"})
       /\ task[i].result.settled => (task[i].result.success <=> task[i].result.error = None)
       /\ ~task[i].result.settled => pc = "running"
       /\ task[i].st = "loading" => (ENABLED OnLoad(i) /\ ENABLED OnError(i))
       /\ task[i].st = "detecting" => (ENABLED DetectFaces(i) /\ ENABLED DetectNoFace(i))
       /\ task[i].st = "encoding" => ENABLED BlobNull(i)
  /\ pc \in {"finalizing", "done"} => results.ready
  /\ results.ready =>
       /\ Len(results.list) = N
       /\ \A i \in 1..N : results.list[i].settled /\ results.list[i] = task[i].result
       /\ Succeeded \cap Failed = {}
       /\ Cardinality(Succeeded) + Cardinality(Failed) = N

\* a batch completed in which one photo failed and another one succeeded
C2_Witness ==
  /\ results.ready
  /\ \E i, j \in 1..N : i < j /\ i \in Failed /\ j \in Succeeded
  /\ \E i, j \in 1..N : i < j /\ j \in Failed /\ i \in Succeeded

\* C3: processImages rejects exactly when the zip folder cannot be created
\* or generateAsync rejects; the error is never a per-photo error; when it
\* rejects saveAs was not called, and when it completes saveAs was called.
C3_OnlyArchiveErrorsPropagate ==
  /\ (pc = "rejected") <=> (thrown # None)
  /\ thrown # None => (thrown \in ArchiveErrors /\ ~saved.called)
  /\ thrown = FolderError => (task = <<>> /\ zip = {})
  /\ thrown = GenerateError => results.ready
  /\ pc = "done" => saved.called
  /\ saved.called => pc = "done"

\* generateAsync rejected after one photo failed and another was staged
C3_Witness ==
  /\ pc = "rejected" /\ thrown = GenerateError /\ ~saved.called
  /\ \E i \in Tasks : task[i].error = LoadError
  /\ \E i \in Tasks : task[i].error = NoFaceError
  /\ \E i \in Tasks : task[i].st = "resolved"

\* C7 as stated: every file entry staged in the archive is named exactly
\* <identifier>.jpg, with no other prefix or path component.
C7_EntryNamedIdentifierJpg ==
  \A e \in FilesOf(zip) :
    e.name = extractEmployeeId(FileNameWithoutExt(files[e.data])) \o JpgSuffix

\* C7 amended: every file entry staged in the archive is named
\* processed_images/<identifier>.jpg, where identifier is extractEmployeeId
\* of the file name cut before its last dot as processImages cuts it.
C7_EntryNamedFolderIdentifierJpg ==
  \A e \in FilesOf(zip) \cup FilesOf(saved.content) :
    e.name = FolderPrefix \o extractEmployeeId(FileNameWithoutExt(files[e.data])) \o JpgSuffix

\* the photo "MTI12 b.png" is staged as processed_images/MTI12.jpg
C7_Witness ==
  \E e \in FilesOf(zip) :
    /\ files[e.data] = <<"M", "T", "I", "1", "2", " ", "b", ".", "p", "n", "g">>
    /\ e.name = FolderPrefix \o <<"M", "T", "I", "1", "2", ".", "j", "p", "g">>

\* C8: a photo whose processImage rejected has a failed entry with its
\* original file name and the error, and no entry in the zip; the delivered
\* archive holds only entries staged by photos that succeeded.
C8_FailedPhotoNotStaged ==
  /\ \A i \in Tasks :
       task[i].st = "rejected" =>
         /\ task[i].result.settled /\ ~task[i].result.success
         /\ task[i].result.fileName = files[i]
         /\ task[i].error # None /\ task[i].result.error = task[i].error
         /\ \A e \in zip \cup saved.content : e.data # i
         /\ results.ready => results.list[i] = task[i].result
  /\ \A e \in FilesOf(saved.content) :
       task[e.data].st = "resolved" /\ task[e.data].result.success

\* an archive was delivered for a batch with a failed and a staged photo
C8_Witness ==
  /\ pc = "done"
  /\ \E i \in Tasks : task[i].st = "rejected" /\ task[i].error = BlobError
  /\ \E e \in FilesOf(saved.content) : task[e.data].st = "resolved"

\* entry name under which photo i is staged
EntryName(i) == FolderPrefix \o extractEmployeeId(FileNameWithoutExt(files[i])) \o JpgSuffix

\* C9: when a photo is staged under the name of a photo staged before it
\* (same identifier, both transcoded), both are succeeded under the same
\* output name, the zip has exactly one entry of that name and its bytes are
\* those of the photo staged last; entries are changed by staging only, and
\* the delivered archive is the zip as it is when generateAsync is called.
C9_LastWriterWins ==
  [][ /\ \A i \in Tasks :
           (task[i].st # "resolved" /\ task'[i].st = "resolved") =>
             /\ {e \in zip' : e.name = EntryName(i)}
                  = {[name |-> EntryName(i), dir |-> FALSE, data |-> i]}
             /\ \A e \in zip : (e.name # EntryName(i) => e \in zip')
             /\ \A e \in zip' : (e.name # EntryName(i) => e \in zip)
             /\ task'[i].result.success
             /\ \A j \in Tasks :
                  (j # i /\ task[j].st = "resolved" /\ EntryName(j) = EntryName(i)) =>
                    (/\ task'[j].result.success
                     /\ task'[j].result.fileName = task'[i].result.fileName
                     /\ \E e \in zip : e.name = EntryName(i) /\ e.data # i)
      /\ (\A i \in Tasks : task[i].st = "resolved" <=> task'[i].st = "resolved")
           => (zip' = zip \/ zip = {})
      /\ saved'.called => saved'.content = zip
    ]_vars

\* two photos share the name and the delivered bytes are those of the one
\* that comes first in the input
C9_Witness ==
  /\ pc = "done"
  /\ \E i, j \in Tasks :
       /\ i < j /\ EntryName(i) = EntryName(j)
       /\ task[i].st = "resolved" /\ task[j].st = "resolved"
       /\ [name |-> EntryName(i), dir |-> FALSE, data |-> i] \in saved.content

\* C10: processImage rejects with the no-face error when the detector
\* returns no detection and with the load error when the image cannot be
\* loaded; in both cases there is no output blob.
C10_NoFaceAndLoadErrors ==
  \A i \in Tasks :
    /\ task[i].faces = "empty" =>
         (task[i].st = "rejected" /\ task[i].error = NoFaceError /\ task[i].blob = 0)
    /\ task[i].loaded = "failed" =>
         (task[i].st = "rejected" /\ task[i].error = LoadError /\ task[i].blob = 0
            /\ task[i].faces = "pending")
    /\ task[i].blob # 0 => (task[i].loaded = "ok" /\ task[i].faces = "nonempty")

\* one photo was rejected for having no face, another for not loading
C10_Witness ==
  /\ \E i \in Tasks : task[i].faces = "empty" /\ task[i].st = "rejected"
  /\ \E i \in Tasks : task[i].loaded = "failed" /\ task[i].st = "rejected"
  /\ \E i \in Tasks : task[i].blob # 0

\* the filename without its last extension, the whole filename when it has no dot
StemWithoutLastExtension(f) ==
  IF \A k \in 1..Len(f) : f[k] # "."
  THEN f
  ELSE SubSeq(f, 1, (CHOOSE k \in 1..Len(f) :
                       f[k] = "." /\ \A j \in (k + 1)..Len(f) : f[j] # ".") - 1)

\* C25: the stem handed to extractEmployeeId is the filename without its
\* last extension, and the whole filename when it has no dot; a staged
\* photo is therefore named after the identifier of that stem.
C25_StemIsNameWithoutLastExtension ==
  \A i \in 1..Len(task) :
    task[i].st = "resolved" =>
      task[i].result.fileName
        = extractEmployeeId(StemWithoutLastExtension(files[i])) \o JpgSuffix

\* C21: zip.generateAsync is called only once every per-photo task has
\* settled as success or failure, and from then on no photo is staged:
\* neither the archive entries nor any task change.
C21_FinalizeAfterAllSettled ==
  [][/\ (pc = "running" /\ pc' = "finalizing")
          => \A i \in 1..Len(task) : task[i].result.settled
     /\ results.ready => (zip' = zip /\ task' = task)]_vars

\* finalization has begun for a batch with a staged and a failed photo
C21_Witness ==
  /\ pc = "finalizing" /\ results.ready
  /\ \E i \in 1..N : task[i].st = "resolved"
  /\ \E i \in 1..N : task[i].st = "rejected"
  /\ \E e \in zip : ~e.dir

----------------------------------------------------------------------------
(* Claims about the face selection *)

\* C11: of several detected boxes processImage takes one of greatest
\* width*height, and among the boxes of that greatest area the one that
\* comes first in the detection list, for every list length and ordering.
C11_LargestFirstSeen ==
  pc = "selected" =>
    \E i \in 1..Len(detections) :
      /\ largestFace = detections[i]
      /\ \A j \in 1..Len(detections) :
           /\ detections[j].width * detections[j].height
                <= detections[i].width * detections[i].height
           /\ (j < i => detections[j].width * detections[j].height
                          < detections[i].width * detections[i].height)

\* three boxes: a small one first, then two different boxes of the same
\* greatest area; the earlier of the two is chosen
C11_Witness ==
  /\ pc = "selected" /\ Len(detections) = 3
  /\ Area(detections[1]) < Area(detections[2])
  /\ Area(detections[2]) = Area(detections[3])
  /\ detections[2] # detections[3]
  /\ largestFace = detections[2]

----------------------------------------------------------------------------
(* Claims about the batch in a fixed environment *)
Hung(i) == i \in 1..N /\ answers[i] = "hang" /\ task[i].st = "detecting"

\* C12: if the detection of one photo never returns, that photo is
\* eventually recorded as a failure and the batch still finalizes and hands
\* over its archive.
C12_HungDetectionRecorded ==
  (pc = "running" /\ \E i \in 1..MaxEnvFiles : Hung(i))
    ~> (/\ pc = "done" /\ saved.called
        /\ \A i \in 1..N :
             answers[i] = "hang" =>
               task[i].result.settled /\ ~task[i].result.success)

\* for every photo the load, the detection and the encoding complete
NoHang == \A i \in 1..N : answers[i] # "hang"

AllSettled == Len(task) = N /\ \A i \in 1..Len(task) : task[i].result.settled

\* C22: if for every photo the load, the detection and the encoding
\* complete, processImages terminates: every per-photo promise settles,
\* the archive is finalized and the call returns.
C22_TerminatesReturning ==
  (pc = "running" /\ NoHang)
    ~> (pc = "done" /\ AllSettled /\ results.ready /\ saved.called)

\* C22 as amended: if for every photo the load, the detection and the
\* encoding complete, every per-photo promise settles, exactly once, and
\* generateAsync is called; the call then returns with the archive saved
\* when generateAsync resolves and rejects without saving when it rejects.
C22_SettlesAndTerminates ==
  /\ (pc = "running" /\ NoHang)
       ~> (/\ AllSettled /\ results.ready
           /\ \/ pc = "done" /\ saved.called
              \/ pc = "rejected" /\ thrown = GenerateError /\ ~saved.called)
  /\ [][\A i \in 1..Len(task) :
          task[i].result.settled => task'[i].result = task[i].result]_vars

\* a batch of two photos, one staged and one failed, has returned
C22_Witness ==
  /\ pc = "done" /\ N = 2 /\ NoHang /\ AllSettled /\ saved.called
  /\ task[1].result.success /\ ~task[2].result.success

\* C14: the succeeded identifiers and the failed filenames of a batch are
\* fixed by the list of files and by what the environment answers for each
\* file; the order in which the tasks complete has no part in them, so two
\* runs on the same inputs with the same answers agree on both sets.
C14_SetsFixedByInputs ==
  results.ready =>
    /\ {results.list[i].fileName : i \in {j \in 1..N : results.list[j].success}}
         = {extractEmployeeId(FileNameWithoutExt(files[i])) \o JpgSuffix :
              i \in {j \in 1..N : answers[j] = "ok"}}
    /\ {results.list[i].fileName : i \in {j \in 1..N : ~results.list[j].success}}
         = {files[i] : i \in {j \in 1..N : answers[j] # "ok"}}

\* two different files with the same identifier, both transcoded, the second
\* finished before the first: the archive holds the blob of the first
C14_Witness ==
  /\ pc = "done" /\ N = 2 /\ files[1] # files[2]
  /\ answers = <<"ok", "ok">>
  /\ results.list[1].success /\ results.list[2].success
  /\ results.list[1].fileName = results.list[2].fileName
  /\ \E e \in saved.content : ~e.dir /\ e.data = 1

----------------------------------------------------------------------------
(* Claims about the number of photos in progress *)
InFlight == {i \in 1..Len(task) : task[i].st \in {"loading", "detecting", "encoding"}}

\* C13: the number of photos being processed at once stays within a worker
\* bound that does not grow with the number of input files; for batches of
\* up to MaxFiles files such a bound lies below MaxFiles.
C13_InFlightBelowLargestBatch == Cardinality(InFlight) < MaxFiles

----------------------------------------------------------------------------
(* Claims about the Index page *)

\* C20: whatever slider changes and process clicks are made, the radius
\* percentage handed to ImageProcessor.processImages is an integer within
\* [5, 100].
C20_PassedRadiusInRange ==
  (pc = "page" /\ page.called) =>
    page.passed \in Int /\ 5 <= page.passed /\ page.passed <= 100

\* the second version after the slider was moved to its far end and the
\* button clicked: 100 was passed and the call is still in progress
C20_Witness ==
  /\ pc = "page" /\ page.variant = 2
  /\ page.called /\ page.calls > 0
  /\ page.radius = 100 /\ page.passed = 100

\* C27: at most one processImages batch of the page is in flight at any
\* time, and isProcessing stays true (the button disabled) from the start
\* of a batch until its promise has settled.
C27_OneBatchInFlight ==
  pc = "page" => (page.calls <= 1 /\ (page.calls > 0 => page.isProcessing))

\* C28: processImages is never invoked from the page before the onLoad
\* callback of FaceDetectionLoader has fired; without it, processing is
\* never started.
C28_CalledOnlyAfterModelsLoaded ==
  (pc = "page" /\ page.called) => page.modelsLoaded

----------------------------------------------------------------------------
(* Claims about the vault routes *)
ActiveConfigs == {c \in ConfigIds : vault.rows[c].exists /\ vault.rows[c].active}

\* C30: once a create-as-active, update-to-active or activate request has
\* completed, at most one vault configuration has IsActive = 1, for every
\* sequence and interleaving of the three kinds of requests.
C30_AtMostOneActive ==
  (pc = "vault" /\ vault.completed) => Cardinality(ActiveConfigs) <= 1

====
